---- MODULE Spec2Model ----
(***************************************************************************)
(* Model of streamlit_app.py: the leveled-box tracker, its persistence to  *)
(* progress.json, the due-card sampler, the multiple-choice option         *)
(* generator and the Streamlit session (one action per script rerun).      *)
(*                                                                         *)
(* Strings are sequences of characters.  A character is a one- or          *)
(* two-symbol TLA+ string: "e~" is the precomposed e-grave, "~" alone is   *)
(* the combining grave accent (Unicode category Mn).                       *)
(* Optional values are sequences: <<>> is None, <<x>> is x.                *)
(***************************************************************************)
EXTENDS Integers, Sequences, FiniteSets, TLC

\* ------------------------------------------------------------------ bounds
\* the lexicon is cut so that the session's card space has at most MaxDeck cards
MaxDeck == 2
\* the round-size slider offers 1..MaxN (the code's slider offers 5..30)
MaxN == 2
\* at most MaxFaults writes to progress.json fail in a behaviour of SpecFaulty
MaxFaults == 1
\* the tracker specification applies at most MaxTrace updates to a card
MaxTrace == 4
\* the sampler specification draws card lists of at most MaxCards cards
MaxCards == 3
\* ... whose weighted list has at most MaxWeighted entries
MaxWeighted == 9
\* the option-generator specification draws card spaces of at most MaxPool cards
MaxPool == 5
\* the form specification draws tense selections of at most MaxTenses tenses
MaxTenses == 2
\* the comparator specification draws typed answers of at most MaxStrLen characters
MaxStrLen == 3

\* ------------------------------------------------------- generic helpers
None == <<>>
Some(x) == <<x>>

RECURSIVE SetToSeq(_)
SetToSeq(S) ==
    IF S = {} THEN <<>>
    ELSE LET x == CHOOSE y \in S : TRUE IN <<x>> \o SetToSeq(S \ {x})

Range(s) == {s[i] : i \in DOMAIN s}

Min(a, b) == IF a < b THEN a ELSE b

Prefix(s, k) == SubSeq(s, 1, Min(k, Len(s)))

RECURSIVE Concat(_)
Concat(ss) == IF ss = <<>> THEN <<>> ELSE Head(ss) \o Concat(Tail(ss))

\* all orders in which the elements of a finite set can be listed
RECURSIVE Orders(_)
Orders(S) ==
    IF S = {} THEN {<<>>}
    ELSE UNION {{<<x>> \o r : r \in Orders(S \ {x})} : x \in S}

\* random.shuffle(list): every arrangement of the list's elements
Shuffles(s) == {[i \in DOMAIN s |-> s[p[i]]] : p \in Orders(DOMAIN s)}

\* ------------------------------------------------------------- constants
PERSONS == <<"io", "tu", "lui/lei", "noi", "voi", "loro">>
IMPERATIVE_PERSONS == <<"tu", "noi", "voi">>
TENSES_ALL == <<"presente", "imperfetto", "passato_prossimo", "imperativo">>

\* ------------------------------------------------------------- normalize
\* str.strip(): drop leading and trailing whitespace
RECURSIVE LStrip(_)
LStrip(s) == IF s # <<>> /\ Head(s) = " " THEN LStrip(Tail(s)) ELSE s

RECURSIVE RStrip(_)
RStrip(s) ==
    IF s # <<>> /\ s[Len(s)] = " " THEN RStrip(SubSeq(s, 1, Len(s) - 1)) ELSE s

Strip(s) == RStrip(LStrip(s))

\* str.lower(), one character
LowerChar(c) ==
    CASE c = "E" -> "e"
      [] c = "E~" -> "e~"
      [] c = "A" -> "a"
      [] c = "A~" -> "a~"
      [] c = "S" -> "s"
      [] c = "D" -> "d"
      [] OTHER -> c

Lower(s) == [i \in DOMAIN s |-> LowerChar(s[i])]

\* unicodedata.normalize('NFD', .), one character: base letter + combining mark
NFDChar(c) ==
    CASE c = "e~" -> <<"e", "~">>
      [] c = "E~" -> <<"E", "~">>
      [] c = "a~" -> <<"a", "~">>
      [] c = "A~" -> <<"A", "~">>
      [] OTHER -> <<c>>

NFD(s) == Concat([i \in DOMAIN s |-> NFDChar(s[i])])

\* unicodedata.category(c) = 'Mn'
IsMn(c) == c = "~"

NotMn(c) == ~IsMn(c)

\* the call of lower() left out
normalizeKeepsCase(s) == SelectSeq(NFD(Strip(s)), NotMn)

normalize(s) == SelectSeq(NFD(Lower(Strip(s))), NotMn)

\* --------------------------------------------------------------- lexicon
\* verbs.json is an input of the program; this is the lexicon the model loads
Essere ==
    [infinitive |-> "essere",
     present |-> << <<"s","o","n","o">>, <<"s","e","i">>, <<"e~">>,
                    <<"s","i","a","m","o">>, <<"s","i","e","t","e">>,
                    <<"s","o","n","o">> >>,
     noi_present |-> <<"s","i","a","m","o">>,
     auxiliary |-> "essere",
     past_participle |-> <<"s","t","a","t","o">>,
     imperative |-> [l \in Range(IMPERATIVE_PERSONS) |->
                       CASE l = "tu" -> <<"s","i","i">>
                         [] l = "noi" -> <<"s","i","a","m","o">>
                         [] OTHER -> <<"s","i","a","t","e">>],
     irregular_imperfect |-> Some(<< <<"e","r","o">>, <<"e","r","i">>,
                    <<"e","r","a">>, <<"e","r","a","v","a","m","o">>,
                    <<"e","r","a","v","a","t","e">>,
                    <<"e","r","a","n","o">> >>)]

Dare ==
    [infinitive |-> "dare",
     present |-> << <<"d","o">>, <<"d","a","i">>, <<"d","a~">>,
                    <<"d","i","a","m","o">>, <<"d","a","t","e">>,
                    <<"d","a","n","n","o">> >>,
     noi_present |-> <<"d","i","a","m","o">>,
     auxiliary |-> "avere",
     past_participle |-> <<"d","a","t","o">>,
     imperative |-> [l \in Range(IMPERATIVE_PERSONS) |->
                       CASE l = "tu" -> <<"d","a">>
                         [] l = "noi" -> <<"d","i","a","m","o">>
                         [] OTHER -> <<"d","a","t","e">>],
     irregular_imperfect |-> None]

Fare ==
    [infinitive |-> "fare",
     present |-> << <<"f","a","c","c","i","o">>, <<"f","a","i">>, <<"f","a">>,
                    <<"f","a","c","c","i","a","m","o">>, <<"f","a","t","e">>,
                    <<"f","a","n","n","o">> >>,
     noi_present |-> <<"f","a","c","c","i","a","m","o">>,
     auxiliary |-> "avere",
     past_participle |-> <<"f","a","t","t","o">>,
     imperative |-> [l \in Range(IMPERATIVE_PERSONS) |->
                       CASE l = "tu" -> <<"f","a","i">>
                         [] l = "noi" -> <<"f","a","c","c","i","a","m","o">>
                         [] OTHER -> <<"f","a","t","e">>],
     irregular_imperfect |-> None]

\* load_data(): the verb list, in file order
verbs == <<Essere, Dare, Fare>>

\* ----------------------------------------------------------------- Verb
EndsWith(s, suf) ==
    Len(s) >= Len(suf) /\ SubSeq(s, Len(s) - Len(suf) + 1, Len(s)) = suf

StartsWith(s, pre) == Len(s) >= Len(pre) /\ SubSeq(s, 1, Len(pre)) = pre

\* s[:-k]
DropLast(s, k) == SubSeq(s, 1, Len(s) - k)

\* the two lexical exceptions left out
imperfectRuleOnly(v) ==
    IF v.irregular_imperfect # None /\ v.irregular_imperfect[1] # <<>>
    THEN v.irregular_imperfect[1]
    ELSE LET base == IF ~EndsWith(v.noi_present, <<"i","a","m","o">>)
                     THEN DropLast(v.noi_present, 3)
                     ELSE DropLast(v.noi_present, 4)
             endings == << <<"v","o">>, <<"v","i">>, <<"v","a">>,
                           <<"v","a","m","o">>, <<"v","a","t","e">>,
                           <<"v","a","n","o">> >>
         IN [i \in 1..6 |-> base \o endings[i]]

imperfect(v) ==
    IF v.irregular_imperfect # None /\ v.irregular_imperfect[1] # <<>>
    THEN v.irregular_imperfect[1]
    ELSE LET base0 == IF ~EndsWith(v.noi_present, <<"i","a","m","o">>)
                      THEN DropLast(v.noi_present, 3)
                      ELSE DropLast(v.noi_present, 4)
             endings == << <<"v","o">>, <<"v","i">>, <<"v","a">>,
                           <<"v","a","m","o">>, <<"v","a","t","e">>,
                           <<"v","a","n","o">> >>
             base1 == IF v.infinitive = "fare"
                         /\ StartsWith(v.noi_present, <<"f","a","c">>)
                      THEN <<"f","a","c","e">> ELSE base0
             base == IF v.infinitive = "dire"
                        /\ StartsWith(v.noi_present, <<"d","i","c","i">>)
                     THEN <<"d","i","c","e">> ELSE base1
         IN [i \in 1..6 |-> base \o endings[i]]

present_for(v, person_idx) == v.present[person_idx + 1]

imperative_for(v, person_label) == v.imperative[person_label]

\* ----------------------------------------------------------------- Card
\* a Card refers to its Verb by the verb's position in the verb list
Card(v, t, pidx, plabel) ==
    [verb |-> v, tense |-> t, person_idx |-> pidx, person_label |-> plabel]

VerbOf(c) == verbs[c.verb]

\* imperative cards built like the cards of the other tenses
CardsOfTenseIndexed(v, t) ==
    IF t = "imperativo"
    THEN [i \in 1..Len(IMPERATIVE_PERSONS) |-> Card(v, t, Some(i - 1), None)]
    ELSE [i \in 1..6 |-> Card(v, t, Some(i - 1), None)]

CardsOfTense(v, t) ==
    IF t = "imperativo"
    THEN [i \in 1..Len(IMPERATIVE_PERSONS) |->
            Card(v, t, None, Some(IMPERATIVE_PERSONS[i]))]
    ELSE [i \in 1..6 |-> Card(v, t, Some(i - 1), None)]

CardsOfVerb(v, tenses) ==
    Concat([j \in DOMAIN tenses |-> CardsOfTense(v, tenses[j])])

make_cards(vs, tenses) ==
    Concat([v \in DOMAIN vs |-> CardsOfVerb(v, tenses)])

\* the key pick_due_cards deduplicates on
Identity(c) == <<VerbOf(c).infinitive, c.tense, c.person_idx, c.person_label>>

\* the auxiliary is never looked at
expected_formAlwaysAvere(card) ==
    LET v == VerbOf(card)
        be == FALSE
        sp == <<" ">>
    IN CASE card.tense = "presente" -> present_for(v, card.person_idx[1])
         [] card.tense = "imperfetto" -> imperfect(v)[card.person_idx[1] + 1]
         [] card.tense = "passato_prossimo" ->
              LET forms ==
                    << (IF be THEN <<"s","o","n","o">> ELSE <<"h","o">>)
                          \o sp \o v.past_participle,
                       (IF be THEN <<"s","e","i">> ELSE <<"h","a","i">>)
                          \o sp \o v.past_participle,
                       (IF be THEN <<"e~">> ELSE <<"h","a">>)
                          \o sp \o v.past_participle,
                       (IF be THEN <<"s","i","a","m","o">>
                              ELSE <<"a","b","b","i","a","m","o">>)
                          \o sp \o v.past_participle,
                       (IF be THEN <<"s","i","e","t","e">>
                              ELSE <<"a","v","e","t","e">>)
                          \o sp \o v.past_participle,
                       (IF be THEN <<"s","o","n","o">>
                              ELSE <<"h","a","n","n","o">>)
                          \o sp \o v.past_participle >>
              IN forms[card.person_idx[1] + 1]
         [] card.tense = "imperativo" ->
              imperative_for(v, card.person_label[1])

expected_form(card) ==
    LET v == VerbOf(card)
        be == v.auxiliary = "essere"
        sp == <<" ">>
    IN CASE card.tense = "presente" -> present_for(v, card.person_idx[1])
         [] card.tense = "imperfetto" -> imperfect(v)[card.person_idx[1] + 1]
         [] card.tense = "passato_prossimo" ->
              LET forms ==
                    << (IF be THEN <<"s","o","n","o">> ELSE <<"h","o">>)
                          \o sp \o v.past_participle,
                       (IF be THEN <<"s","e","i">> ELSE <<"h","a","i">>)
                          \o sp \o v.past_participle,
                       (IF be THEN <<"e~">> ELSE <<"h","a">>)
                          \o sp \o v.past_participle,
                       (IF be THEN <<"s","i","a","m","o">>
                              ELSE <<"a","b","b","i","a","m","o">>)
                          \o sp \o v.past_participle,
                       (IF be THEN <<"s","i","e","t","e">>
                              ELSE <<"a","v","e","t","e">>)
                          \o sp \o v.past_participle,
                       (IF be THEN <<"s","o","n","o">>
                              ELSE <<"h","a","n","n","o">>)
                          \o sp \o v.past_participle >>
              IN forms[card.person_idx[1] + 1]
         [] card.tense = "imperativo" ->
              imperative_for(v, card.person_label[1])

\* ------------------------------------------------------------- Progress
\* Progress.boxes is a function from keys to integers
key(c) ==
    LET pk == IF c.tense = "imperativo" THEN c.person_label[1]
              ELSE PERSONS[c.person_idx[1] + 1]
    IN <<VerbOf(c).infinitive, c.tense, pk>>

EmptyBoxes == [k \in {} |-> 0]

\* dict.get(k, 1)
BoxAt(boxes, k) == IF k \in DOMAIN boxes THEN boxes[k] ELSE 1

get_box(boxes, c) == BoxAt(boxes, key(c))

\* the mapping after get_box: dict.get inserts nothing
get_boxStore(boxes, c) == boxes

\* a wrong answer resets every stored box
updateWrongResetsAll(boxes, c, correct) ==
    LET k == key(c)
        cur == BoxAt(boxes, k)
    IN [x \in DOMAIN boxes \cup {k} |->
          IF correct THEN (IF x = k THEN Min(5, cur + 1) ELSE boxes[x]) ELSE 1]

updateNoCeiling(boxes, c, correct) ==
    LET k == key(c)
        cur == BoxAt(boxes, k)
        new == IF correct THEN cur + 1 ELSE 1
    IN [x \in DOMAIN boxes \cup {k} |-> IF x = k THEN new ELSE boxes[x]]

update(boxes, c, correct) ==
    LET k == key(c)
        cur == BoxAt(boxes, k)
        new == IF correct THEN Min(5, cur + 1) ELSE 1
    IN [x \in DOMAIN boxes \cup {k} |-> IF x = k THEN new ELSE boxes[x]]

\* ---------------------------------------------------------- progress.json
\* The file is a record: does it exist, and its text.  The text json.dump
\* writes is a sequence of chunks: the opening of {"boxes": {, one chunk per
\* entry, the closing }}.
OpenChunk == [t |-> "open"]
CloseChunk == [t |-> "close"]
EntryChunk(k, v) == [t |-> "entry", k |-> k, v |-> v]

NoFile == [exists |-> FALSE, text |-> <<>>]
FileWith(text) == [exists |-> TRUE, text |-> text]

\* json.dump({"boxes": p.boxes}, f): the complete text
Dump(boxes) ==
    LET ks == SetToSeq(DOMAIN boxes)
    IN <<OpenChunk>> \o [i \in DOMAIN ks |-> EntryChunk(ks[i], boxes[ks[i]])]
         \o <<CloseChunk>>

\* json.load succeeds and gives {"boxes": {...}}
WellFormed(text) ==
    /\ Len(text) >= 2
    /\ text[1].t = "open"
    /\ text[Len(text)].t = "close"
    /\ \A i \in 2..(Len(text) - 1) : text[i].t = "entry"

\* the mapping json.load builds (a repeated key keeps its last value)
Parsed(text) ==
    LET ents == {i \in 2..(Len(text) - 1) : TRUE}
        ks == {text[i].k : i \in ents}
        last(k) == CHOOSE i \in ents :
                     text[i].k = k /\ \A j \in ents : text[j].k = k => j <= i
    IN [k \in ks |-> text[last(k)].v]

\* a truncated file is read as far as it goes
load_progressKeepsPartial(disk) ==
    LET ents == {i \in DOMAIN disk.text : disk.text[i].t = "entry"}
    IN IF disk.exists
       THEN [k \in {disk.text[i].k : i \in ents} |->
               disk.text[CHOOSE i \in ents : disk.text[i].k = k].v]
       ELSE EmptyBoxes

\* no value of the loaded mapping is checked
load_progress(disk) ==
    IF disk.exists /\ WellFormed(disk.text) THEN Parsed(disk.text)
    ELSE EmptyBoxes

ProperPrefixes(text) == {SubSeq(text, 1, k) : k \in 0..(Len(text) - 1)}

save_progressSkipsWrite(disk, boxes) ==
    {[disk |-> disk, warned |-> FALSE]}

\* open(.., "a") for open(.., "w")
save_progressAppends(disk, boxes) ==
    {[disk |-> FileWith(disk.text \o Dump(boxes)), warned |-> FALSE]}
      \cup {[disk |-> disk, warned |-> TRUE]}
      \cup {[disk |-> FileWith(t), warned |-> TRUE] :
              t \in ProperPrefixes(Dump(boxes))}

\* the outcomes of save_progress: the file afterwards, and whether st.warning
\* was raised.  open(.., "w") fails and leaves the file as it was, or it
\* truncates the file and json.dump fails part-way, or all is written.
save_progress(disk, boxes) ==
    {[disk |-> FileWith(Dump(boxes)), warned |-> FALSE]}
      \cup {[disk |-> disk, warned |-> TRUE]}
      \cup {[disk |-> FileWith(t), warned |-> TRUE] :
              t \in ProperPrefixes(Dump(boxes))}

\* ------------------------------------------------------- pick_due_cards
\* no copies for a mastered card
WEIGHTSNoFloor == [b \in 1..5 |-> CASE b = 1 -> 6 [] b = 2 -> 4 [] b = 3 -> 2
                                    [] b = 4 -> 1 [] OTHER -> 0]

WEIGHTS == [b \in 1..5 |-> CASE b = 1 -> 6 [] b = 2 -> 4 [] b = 3 -> 2
                             [] OTHER -> 1]

\* {1:6, ...}[box] raises KeyError
PickRaises(cards, boxes) ==
    \E i \in DOMAIN cards : get_box(boxes, cards[i]) \notin DOMAIN WEIGHTS

Weighted(cards, boxes) ==
    Concat([i \in DOMAIN cards |->
              [j \in 1..WEIGHTS[get_box(boxes, cards[i])] |-> cards[i]]])

RemoveOne(s, x) ==
    LET i == CHOOSE j \in DOMAIN s : s[j] = x /\ \A m \in 1..(j - 1) : s[m] # x
    IN SubSeq(s, 1, i - 1) \o SubSeq(s, i + 1, Len(s))

RECURSIVE ScanShuffledNoSeen(_, _, _, _)
ScanShuffledNoSeen(rest, seen, out, n) ==
    IF rest = <<>> THEN {out}
    ELSE UNION {
           LET out2 == Append(out, c)
           IN IF Len(out2) >= n THEN {out2}
              ELSE ScanShuffledNoSeen(RemoveOne(rest, c), seen, out2, n)
           : c \in Range(rest)}

\* the scan stops one card late: len(out) > n for len(out) >= n
RECURSIVE ScanShuffledLateBreak(_, _, _, _)
ScanShuffledLateBreak(rest, seen, out, n) ==
    IF rest = <<>> THEN {out}
    ELSE UNION {
           LET k == Identity(c)
               out2 == IF k \notin seen THEN Append(out, c) ELSE out
           IN IF Len(out2) > n THEN {out2}
              ELSE ScanShuffledLateBreak(RemoveOne(rest, c), seen \cup {k}, out2, n)
           : c \in Range(rest)}

\* random.shuffle(weighted) followed by the scan: `rest` is what the shuffled
\* list still holds; its next element is any of the elements of rest.
RECURSIVE ScanShuffled(_, _, _, _)
ScanShuffled(rest, seen, out, n) ==
    IF rest = <<>> THEN {out}
    ELSE UNION {
           LET k == Identity(c)
               out2 == IF k \notin seen THEN Append(out, c) ELSE out
           IN IF Len(out2) >= n THEN {out2}
              ELSE ScanShuffled(RemoveOne(rest, c), seen \cup {k}, out2, n)
           : c \in Range(rest)}

\* the lists pick_due_cards can return (when it does not raise)
pick_due_cards(cards, boxes, n) ==
    ScanShuffled(Weighted(cards, boxes), {}, <<>>, n)

\* -------------------------------------------- multiple-choice options
\* expected_form raises: the ValueError of line 152, or a failed lookup
\* (a missing index or label, an index outside the list)
FormRaises(card) ==
    \/ card.tense \notin Range(TENSES_ALL)
    \/ card.tense = "imperativo"
         /\ (card.person_label = None
              \/ card.person_label[1] \notin DOMAIN VerbOf(card).imperative)
    \/ card.tense \in Range(TENSES_ALL) \ {"imperativo"}
         /\ card.person_idx = None
    \/ card.tense = "presente" /\ card.person_idx # None
         /\ card.person_idx[1] + 1 \notin DOMAIN VerbOf(card).present
    \/ card.tense = "imperfetto" /\ card.person_idx # None
         /\ card.person_idx[1] + 1 \notin DOMAIN imperfect(VerbOf(card))
    \/ card.tense = "passato_prossimo" /\ card.person_idx # None
         /\ card.person_idx[1] + 1 \notin 1..6

Resolvable(card) == ~FormRaises(card)

\* the forms of the pool, in card order; cards expected_form raises on are skipped
Pool(deck) ==
    LET ok == SelectSeq(deck, Resolvable)
    IN [i \in DOMAIN ok |-> expected_form(ok[i])]

\* the scan of the shuffled pool p, adding to the set `options`
RECURSIVE Collect(_, _, _)
Collect(options, p, correct) ==
    IF p = <<>> \/ Cardinality(options) >= 4 THEN options
    ELSE Collect(IF normalize(Head(p)) # normalize(correct)
                 THEN options \cup {Head(p)} ELSE options,
                 Tail(p), correct)

\* the option lists the generation can store, over every shuffle of the pool
\* and every order of list(options) and of the final shuffle
GenOptions(correct, deck) ==
    UNION {Orders(Collect({correct}, p, correct)) : p \in Shuffles(Pool(deck))}

\* ======================================================= the session
\* One action is one run of the script, started by one widget event, together
\* with the rerun that st.rerun() asks for.
VARIABLES
    ss,             \* st.session_state: a record of the keys that are set
    mode,           \* sidebar radio
    chosen_tenses,  \* sidebar multiselect
    n_questions,    \* sidebar slider
    disk,           \* progress.json
    warned,         \* save_progress raised its st.warning in the last action
    raised,         \* the last run ended in an uncaught exception (line 191)
    faults,         \* the environment: how many more writes to progress.json fail
    call,           \* the arguments of the function under test (function specs)
    ret             \* its result

vars == <<ss, mode, chosen_tenses, n_questions, disk, warned, raised, faults,
          call, ret>>

FT == "Kirjoitusharjoitus"
MC == "Monivalinta"

\* the tense selections the model offers in the multiselect
TenseChoices == {TENSES_ALL, <<>>}

\* line 190, over the lexicon cut to MaxDeck cards
cards_all(tenses) == Prefix(make_cards(verbs, tenses), MaxDeck)

\* every card the session can meet, and every key
SessionCards == UNION {Range(cards_all(t)) : t \in TenseChoices}

DropKey(s, k) == [x \in DOMAIN s \ {k} |-> s[x]]

Inited(s) == "idx" \in DOMAIN s

\* lines 194-215: each key is set only if it is absent
SessionInit(s, round_cards) ==
    s @@ [idx |-> 0, correct_count |-> 0, finished |-> FALSE,
          current_set |-> round_cards, show_hint |-> FALSE, checked |-> FALSE,
          was_correct |-> FALSE, last_correct_form |-> <<>>,
          mc_options |-> None, mc_for_idx |-> None]

restart_roundKeepsCursor(s, cards, n) ==
    {DropKey([s EXCEPT !.finished = FALSE,
                       !.current_set = out, !.show_hint = FALSE,
                       !.checked = FALSE, !.last_correct_form = <<>>,
                       !.mc_options = None, !.mc_for_idx = None], "mc_choice")
       : out \in pick_due_cards(cards, s.progress, n)}

\* restart_round, up to its st.rerun()
restart_round(s, cards, n) ==
    {DropKey([s EXCEPT !.idx = 0, !.correct_count = 0, !.finished = FALSE,
                       !.current_set = out, !.show_hint = FALSE,
                       !.checked = FALSE, !.last_correct_form = <<>>,
                       !.mc_options = None, !.mc_for_idx = None], "mc_choice")
       : out \in pick_due_cards(cards, s.progress, n)}

\* the end of the round is not noticed
go_nextNeverFinishes(s) ==
    DropKey([s EXCEPT !.idx = @ + 1, !.show_hint = FALSE,
                      !.checked = FALSE, !.last_correct_form = <<>>,
                      !.mc_options = None, !.mc_for_idx = None], "mc_choice")

\* go_next, up to its st.rerun()
go_next(s) ==
    LET t == DropKey([s EXCEPT !.idx = @ + 1, !.show_hint = FALSE,
                               !.checked = FALSE, !.last_correct_form = <<>>,
                               !.mc_options = None, !.mc_for_idx = None],
                     "mc_choice")
    IN IF t.idx >= Len(t.current_set) THEN [t EXCEPT !.finished = TRUE] ELSE t

\* line 259
CurrentCard(s) == s.current_set[s.idx + 1]

\* the page shows a card (lines 249-259 did not stop the run)
ShowsCard(s) == Inited(s) /\ ~s.finished /\ s.current_set # <<>>

MCGenerateAlways(s, deck) ==
    {DropKey([s EXCEPT !.mc_options = Some(o),
                       !.mc_for_idx = Some(s.idx)], "mc_choice")
       : o \in GenOptions(expected_form(CurrentCard(s)), deck)}

\* lines 317-337: the options are built when there are none for this position
MCGenerate(s, deck) ==
    IF s.mc_options = None \/ s.mc_for_idx # Some(s.idx)
    THEN {DropKey([s EXCEPT !.mc_options = Some(o),
                            !.mc_for_idx = Some(s.idx)], "mc_choice")
            : o \in GenOptions(expected_form(CurrentCard(s)), deck)}
    ELSE {s}

\* lines 249-381 of a run in which no button is pressed
Render(s, m, deck) ==
    IF ShowsCard(s) /\ m = MC THEN MCGenerate(s, deck) ELSE {s}

\* a run in which no button is pressed, from line 190 on: the session states
\* it can end in, and whether it ended in the exception of line 191
PlainRun(s, m, tenses, n) ==
    LET deck == cards_all(tenses)
    IN IF PickRaises(deck, s.progress)
       THEN {[ss |-> s, raised |-> TRUE]}
       ELSE LET rounds == IF Inited(s) THEN {<<>>}
                          ELSE pick_due_cards(deck, s.progress, n)
            IN {[ss |-> r, raised |-> FALSE] :
                  r \in UNION {Render(SessionInit(s, rc), m, deck) : rc \in rounds}}

\* a button below line 191 can be pressed only in a run that gets there
Reaches(s) == Inited(s) /\ ~PickRaises(cards_all(chosen_tenses), s.progress)

Deck == cards_all(chosen_tenses)

\* the answers typed into the text input
Answers(correct) ==
    {correct, <<" ">> \o [i \in DOMAIN correct |->
                            IF correct[i] = "s" THEN "S" ELSE correct[i]],
     <<>>, <<" ">>, <<"h", "a">>}

\* the count goes up whatever the verdict
JudgeCountsEvery(s, answer) ==
    LET correct == expected_form(CurrentCard(s))
        is_ok == normalize(answer) = normalize(correct)
    IN [s EXCEPT !.was_correct = is_ok, !.last_correct_form = correct,
                 !.progress = update(s.progress, CurrentCard(s), is_ok),
                 !.checked = TRUE,
                 !.correct_count = @ + 1]

\* lines 301-308 and 367-374: judge the answer, update, and (separately) save
Judge(s, answer) ==
    LET correct == expected_form(CurrentCard(s))
        is_ok == normalize(answer) = normalize(correct)
    IN [s EXCEPT !.was_correct = is_ok, !.last_correct_form = correct,
                 !.progress = update(s.progress, CurrentCard(s), is_ok),
                 !.checked = TRUE,
                 !.correct_count = IF is_ok THEN @ + 1 ELSE @]

\* save_progress in this environment: a write fails only while faults are left
Saves(d, boxes) == {o \in save_progress(d, boxes) : faults > 0 \/ ~o.warned}

FaultsAfter(w) == IF w THEN faults - 1 ELSE faults

\* ------------------------------------------------------------ actions
\* session start: load_progress, the widgets' defaults, the first run
Start(d) ==
    /\ mode' = FT
    /\ chosen_tenses' = TENSES_ALL
    /\ n_questions' = MaxN
    /\ disk' = d
    /\ warned' = FALSE
    /\ \E o \in PlainRun([progress |-> load_progress(d)], FT, TENSES_ALL, MaxN) :
         ss' = o.ss /\ raised' = o.raised

\* the stores a session can find on disk when it starts
Stored(k, v) == FileWith(Dump([x \in {k} |-> v]))

InitialDisks ==
    {NoFile, FileWith(<<>>), FileWith(Dump(EmptyBoxes)),
     FileWith(<<OpenChunk, EntryChunk(<<"essere", "presente", "io">>, 3)>>),
     Stored(<<"essere", "presente", "io">>, 3),
     Stored(<<"essere", "presente", "io">>, 7)}

NewSession ==
    /\ Start(disk)
    /\ UNCHANGED <<faults, call, ret>>

\* a sidebar widget changes: the script reruns with no button pressed
SetMode ==
    \E m \in {FT, MC} \ {mode} :
      /\ mode' = m
      /\ \E o \in PlainRun(ss, m, chosen_tenses, n_questions) :
           ss' = o.ss /\ raised' = o.raised
      /\ warned' = FALSE
      /\ UNCHANGED <<chosen_tenses, n_questions, disk, faults, call, ret>>

SetTenses ==
    \E t \in TenseChoices \ {chosen_tenses} :
      /\ chosen_tenses' = t
      /\ \E o \in PlainRun(ss, mode, t, n_questions) :
           ss' = o.ss /\ raised' = o.raised
      /\ warned' = FALSE
      /\ UNCHANGED <<mode, n_questions, disk, faults, call, ret>>

SetN ==
    \E n \in (1..MaxN) \ {n_questions} :
      /\ n_questions' = n
      /\ \E o \in PlainRun(ss, mode, chosen_tenses, n) :
           ss' = o.ss /\ raised' = o.raised
      /\ warned' = FALSE
      /\ UNCHANGED <<mode, chosen_tenses, disk, faults, call, ret>>

\* "Nollaa edistyminen", lines 185-188, then the rest of the run
ResetProgress ==
    /\ \E sv \in Saves(disk, EmptyBoxes) :
         /\ disk' = sv.disk
         /\ warned' = sv.warned
         /\ faults' = FaultsAfter(sv.warned)
    /\ \E o \in PlainRun([ss EXCEPT !.progress = EmptyBoxes], mode,
                         chosen_tenses, n_questions) :
         ss' = o.ss /\ raised' = o.raised
    /\ UNCHANGED <<mode, chosen_tenses, n_questions, call, ret>>

\* "Aloita kierros uusilla asetuksilla", line 246
Restart ==
    /\ Reaches(ss)
    /\ \E s1 \in restart_round(ss, Deck, n_questions) :
         \E o \in PlainRun(s1, mode, chosen_tenses, n_questions) :
           ss' = o.ss /\ raised' = o.raised
    /\ warned' = FALSE
    /\ UNCHANGED <<mode, chosen_tenses, n_questions, disk, faults, call, ret>>

\* "Uusi kierros", line 251
NewRound ==
    /\ Reaches(ss)
    /\ ss.finished
    /\ \E s1 \in restart_round(ss, Deck, n_questions) :
         \E o \in PlainRun(s1, mode, chosen_tenses, n_questions) :
           ss' = o.ss /\ raised' = o.raised
    /\ warned' = FALSE
    /\ UNCHANGED <<mode, chosen_tenses, n_questions, disk, faults, call, ret>>

\* "Vihje", line 269; the run goes on to the card's view
Hint ==
    /\ Reaches(ss)
    /\ ShowsCard(ss)
    /\ ss' \in Render([ss EXCEPT !.show_hint = TRUE], mode, Deck)
    /\ warned' = FALSE
    /\ raised' = FALSE
    /\ UNCHANGED <<mode, chosen_tenses, n_questions, disk, faults, call, ret>>

\* "Tarkista", lines 300-308
Check ==
    /\ Reaches(ss)
    /\ ShowsCard(ss)
    /\ mode = FT
    /\ ~ss.checked
    /\ \E answer \in Answers(expected_form(CurrentCard(ss))) :
         LET s1 == Judge(ss, answer)
         IN /\ ss' = s1
            /\ \E sv \in Saves(disk, s1.progress) :
                 disk' = sv.disk /\ warned' = sv.warned
                   /\ faults' = FaultsAfter(sv.warned)
    /\ raised' = FALSE
    /\ UNCHANGED <<mode, chosen_tenses, n_questions, call, ret>>

\* the radio of line 341: an option is selected
Choose ==
    /\ Reaches(ss)
    /\ ShowsCard(ss)
    /\ mode = MC
    /\ ss.mc_options # None
    /\ \E i \in DOMAIN ss.mc_options[1] :
         \E s1 \in MCGenerate([x \in DOMAIN ss \cup {"mc_choice"} |->
                                 IF x = "mc_choice" THEN ss.mc_options[1][i]
                                 ELSE ss[x]], Deck) :
           ss' = s1
    /\ warned' = FALSE
    /\ raised' = FALSE
    /\ UNCHANGED <<mode, chosen_tenses, n_questions, disk, faults, call, ret>>

\* "Vastaa", lines 362-374
Answer ==
    /\ Reaches(ss)
    /\ ShowsCard(ss)
    /\ mode = MC
    /\ ~ss.checked
    /\ \E s0 \in MCGenerate(ss, Deck) :
         IF "mc_choice" \notin DOMAIN s0
         THEN ss' = s0 /\ UNCHANGED <<disk, faults>> /\ warned' = FALSE
         ELSE LET s1 == Judge(s0, s0.mc_choice)
              IN /\ ss' = s1
                 /\ \E sv \in Saves(disk, s1.progress) :
                      disk' = sv.disk /\ warned' = sv.warned
                   /\ faults' = FaultsAfter(sv.warned)
    /\ raised' = FALSE
    /\ UNCHANGED <<mode, chosen_tenses, n_questions, call, ret>>

\* "Seuraava", lines 289-290 and 351-352
Advance ==
    /\ Reaches(ss)
    /\ ShowsCard(ss)
    /\ ss.checked
    /\ \E o \in PlainRun(go_next(ss), mode, chosen_tenses, n_questions) :
         ss' = o.ss /\ raised' = o.raised
    /\ warned' = FALSE
    /\ UNCHANGED <<mode, chosen_tenses, n_questions, disk, faults, call, ret>>

\* update(card, False); save_progress; go_next: lines 311-313 and 377-379
SkipCard(s) == [s EXCEPT !.progress = update(s.progress, CurrentCard(s), FALSE)]

\* "Ohita"
Skip ==
    /\ Reaches(ss)
    /\ ShowsCard(ss)
    /\ ~ss.checked
    /\ LET s1 == SkipCard(ss)
       IN /\ \E sv \in Saves(disk, s1.progress) :
               disk' = sv.disk /\ warned' = sv.warned
                   /\ faults' = FaultsAfter(sv.warned)
          /\ \E o \in PlainRun(go_next(s1), mode, chosen_tenses, n_questions) :
               ss' = o.ss /\ raised' = o.raised
    /\ UNCHANGED <<mode, chosen_tenses, n_questions, call, ret>>

\* "Ohita tämäkin", lines 292-295 and 354-357
SkipAfterFeedback ==
    /\ Reaches(ss)
    /\ ShowsCard(ss)
    /\ ss.checked
    /\ LET s1 == SkipCard(ss)
       IN /\ \E sv \in Saves(disk, s1.progress) :
               disk' = sv.disk /\ warned' = sv.warned
                   /\ faults' = FaultsAfter(sv.warned)
          /\ \E o \in PlainRun(go_next(s1), mode, chosen_tenses, n_questions) :
               ss' = o.ss /\ raised' = o.raised
    /\ UNCHANGED <<mode, chosen_tenses, n_questions, call, ret>>

\* the variables the session does not use
NoCall == call = <<>> /\ ret = <<>>

\* the state after the first run of a session that finds progress.json = d
InitSession(d) ==
    /\ mode = FT
    /\ chosen_tenses = TENSES_ALL
    /\ n_questions = MaxN
    /\ disk = d
    /\ warned = FALSE
    /\ \E o \in PlainRun([progress |-> load_progress(d)], FT, TENSES_ALL, MaxN) :
         ss = o.ss /\ raised = o.raised

Init ==
    /\ \E d \in InitialDisks : InitSession(d)
    /\ faults = 0
    /\ NoCall

\* the same session on a disk whose writes can fail
InitFaulty ==
    /\ InitSession(NoFile)
    /\ faults = MaxFaults
    /\ NoCall

Next ==
    \/ NewSession
    \/ SetMode
    \/ SetTenses
    \/ SetN
    \/ ResetProgress
    \/ Restart
    \/ NewRound
    \/ Hint
    \/ Check
    \/ Choose
    \/ Answer
    \/ Advance
    \/ Skip
    \/ SkipAfterFeedback

Spec == Init /\ [][Next]_vars

\* the actions that touch the tracker, the round or the file
NextFaulty ==
    \/ NewSession
    \/ SetMode
    \/ ResetProgress
    \/ Restart
    \/ NewRound
    \/ Check
    \/ Choose
    \/ Answer
    \/ Advance
    \/ Skip
    \/ SkipAfterFeedback

SpecFaulty == InitFaulty /\ [][NextFaulty]_vars

\* ================================================= function specifications
\* the session's variables, parked while a function is exercised alone
SessionOff ==
    /\ ss = [progress |-> EmptyBoxes]
    /\ mode = FT
    /\ chosen_tenses = <<>>
    /\ n_questions = 1
    /\ disk = NoFile
    /\ warned = FALSE
    /\ raised = FALSE
    /\ faults = 0

sessionVars ==
    <<ss, mode, chosen_tenses, n_questions, disk, warned, raised, faults>>

\* ------------------------------------------------ the tracker on its own
\* call = the tracker, the card and the verdicts given so far;
\* ret = what get_box returned at the start and after every update
TrackerCards ==
    {Card(1, "presente", Some(0), None), Card(1, "imperativo", None, Some("tu")),
     Card(2, "presente", Some(1), None)}

TrackerKeys == {key(Card(1, "presente", Some(0), None)),
                key(Card(1, "imperativo", None, Some("tu")))}

\* the mappings a tracker can hold when the card is met, whatever their origin
TrackerStores ==
    UNION {[K -> 0..6] : K \in SUBSET TrackerKeys}

InitBox ==
    /\ SessionOff
    /\ \E c \in TrackerCards, b \in TrackerStores :
         /\ call = [card |-> c, boxes |-> b, answers |-> <<>>]
         /\ ret = <<get_box(b, c)>>

Updated(correct) ==
    /\ Len(call.answers) < MaxTrace
    /\ call' = [call EXCEPT !.boxes = update(@, call.card, correct),
                            !.answers = Append(@, correct)]
    /\ ret' = Append(ret, get_box(call'.boxes, call.card))
    /\ UNCHANGED sessionVars

UpdateCorrect == Updated(TRUE)

UpdateWrong == Updated(FALSE)

NextBox == UpdateCorrect \/ UpdateWrong

SpecBox == InitBox /\ [][NextBox]_vars

\* ------------------------------------------------ the sampler on its own
\* call = the arguments of pick_due_cards and where the call stands;
\* ret = the list returned
PickUniverse ==
    {Card(1, "presente", Some(0), None), Card(1, "imperativo", None, Some("tu")),
     Card(2, "presente", Some(0), None)}

PickKeys == {key(c) : c \in PickUniverse}

CardLists == UNION {[1..k -> PickUniverse] : k \in 0..MaxCards}

\* every tracker over the universe, and one that holds a box outside 1..5
PickStores ==
    [PickKeys -> 1..5] \cup {EmptyBoxes}
      \cup {[k \in {key(Card(1, "presente", Some(0), None))} |-> 7]}

InitPick ==
    /\ SessionOff
    /\ \E cs \in CardLists, b \in PickStores, n \in 1..(MaxCards + 1) :
         /\ IF PickRaises(cs, b) THEN TRUE
            ELSE Len(Weighted(cs, b)) <= MaxWeighted
         /\ call = [cards |-> cs, boxes |-> b, n |-> n, pc |-> "called"]
    /\ ret = <<>>

PickReturns ==
    /\ call.pc = "called"
    /\ ~PickRaises(call.cards, call.boxes)
    /\ ret' \in pick_due_cards(call.cards, call.boxes, call.n)
    /\ call' = [call EXCEPT !.pc = "returned"]
    /\ UNCHANGED sessionVars

PickKeyError ==
    /\ call.pc = "called"
    /\ PickRaises(call.cards, call.boxes)
    /\ call' = [call EXCEPT !.pc = "raised"]
    /\ UNCHANGED <<ret, sessionVars>>

NextPick == PickReturns \/ PickKeyError

SpecPick == InitPick /\ [][NextPick]_vars

\* ------------------------------------- save_progress, chunk by chunk
\* ss.progress = the tracker of the running process; call.pre = the tracker
\* before the update being saved; call.pc = where the process stands
SaveCards == {Card(1, "presente", Some(0), None), Card(1, "presente", Some(1), None)}

InitSave ==
    /\ ss \in {[progress |-> EmptyBoxes],
               [progress |-> [k \in {key(Card(1, "presente", Some(0), None))} |-> 3]]}
    /\ disk = FileWith(Dump(ss.progress))
    /\ call = [pc |-> "idle", pre |-> ss.progress]
    /\ ret = <<>>
    /\ mode = FT
    /\ chosen_tenses = <<>>
    /\ n_questions = 1
    /\ warned = FALSE
    /\ raised = FALSE
    /\ faults = 0

saveFrame == <<mode, chosen_tenses, n_questions, warned, raised, faults, ret>>

\* update(card, correct), then save_progress opens the file for writing,
\* which empties it (line 115)
SaveOpen ==
    /\ call.pc = "idle"
    /\ \E c \in SaveCards, correct \in BOOLEAN :
         ss' = [progress |-> update(ss.progress, c, correct)]
    /\ call' = [pc |-> "writing", pre |-> ss.progress]
    /\ disk' = FileWith(<<>>)
    /\ UNCHANGED saveFrame

\* json.dump writes the next chunk (line 116)
SaveWrite ==
    /\ call.pc = "writing"
    /\ Len(disk.text) < Len(Dump(ss.progress))
    /\ disk' = FileWith(Append(disk.text, Dump(ss.progress)[Len(disk.text) + 1]))
    /\ UNCHANGED <<ss, call, saveFrame>>

\* the with block ends: the file is closed and the action goes on
SaveClose ==
    /\ call.pc = "writing"
    /\ Len(disk.text) = Len(Dump(ss.progress))
    /\ call' = [call EXCEPT !.pc = "idle"]
    /\ UNCHANGED <<ss, disk, saveFrame>>

\* the process dies, at any step
Crash ==
    /\ call.pc \in {"idle", "writing"}
    /\ call' = [call EXCEPT !.pc = "dead"]
    /\ UNCHANGED <<ss, disk, saveFrame>>

\* the next session starts from the file (line 177)
Relaunch ==
    /\ call.pc = "dead"
    /\ ss' = [progress |-> load_progress(disk)]
    /\ call' = [pc |-> "idle", pre |-> load_progress(disk)]
    /\ UNCHANGED <<disk, saveFrame>>

NextSave == SaveOpen \/ SaveWrite \/ SaveClose \/ Crash \/ Relaunch

SpecSave == InitSave /\ [][NextSave]_vars

\* ------------------------------------ the option generator on its own
\* call = the current card and the card space; ret = the options stored
InMCBase(c) ==
    \/ VerbOf(c).infinitive = "dare" /\ c.tense = "presente"
         /\ c.person_idx[1] \in 0..2
    \/ VerbOf(c).infinitive = "dare" /\ c.tense = "imperativo"
         /\ c.person_label[1] \in {"tu", "noi"}
    \/ VerbOf(c).infinitive = "essere" /\ c.tense = "presente"
         /\ c.person_idx[1] = 2

MCBase == SelectSeq(make_cards(verbs, <<"presente", "imperativo">>), InMCBase)

SortedSeq(S) ==
    CHOOSE f \in [1..Cardinality(S) -> S] :
      \A i, j \in 1..Cardinality(S) : i < j => f[i] < f[j]

\* the card spaces: the sublists of MCBase of at most MaxPool cards
SubDeck(S) == [i \in 1..Cardinality(S) |-> MCBase[SortedSeq(S)[i]]]

InitMC ==
    /\ SessionOff
    /\ \E c \in Range(MCBase), S \in SUBSET DOMAIN MCBase :
         /\ Cardinality(S) <= MaxPool
         /\ call = [card |-> c, deck |-> SubDeck(S), pc |-> "render"]
    /\ ret = <<>>

Generate ==
    /\ call.pc = "render"
    /\ ret' \in GenOptions(expected_form(call.card), call.deck)
    /\ call' = [call EXCEPT !.pc = "generated"]
    /\ UNCHANGED sessionVars

NextMC == Generate

SpecMC == InitMC /\ [][NextMC]_vars

\* ------------------------------- make_cards and expected_form on their own
\* call = the tense selection given to make_cards, one of the cards it made
\* and where the call of expected_form on that card stands; ret = the form
UnknownTense == "futuro"

TenseLists ==
    UNION {[1..k -> Range(TENSES_ALL) \cup {UnknownTense}] : k \in 0..MaxTenses}

InitForm ==
    /\ SessionOff
    /\ \E ts \in TenseLists :
         \E i \in DOMAIN make_cards(verbs, ts) :
           call = [tenses |-> ts, card |-> make_cards(verbs, ts)[i],
                   pc |-> "called"]
    /\ ret = <<>>

FormReturns ==
    /\ call.pc = "called"
    /\ ~FormRaises(call.card)
    /\ ret' = Some(expected_form(call.card))
    /\ call' = [call EXCEPT !.pc = "returned"]
    /\ UNCHANGED sessionVars

FormError ==
    /\ call.pc = "called"
    /\ FormRaises(call.card)
    /\ call' = [call EXCEPT !.pc = "raised"]
    /\ UNCHANGED <<ret, sessionVars>>

NextForm == FormReturns \/ FormError

SpecForm == InitForm /\ [][NextForm]_vars

\* ------------------------------------------- the answer check on its own
\* call = the typed answer, the expected form and where the comparison stands;
\* ret = is_ok
AnswerChars == {" ", "e", "E", "e~", "E~", "~", "h", "o", "a"}

TypedAnswers == UNION {[1..k -> AnswerChars] : k \in 0..MaxStrLen}

ExpectedForms ==
    {<<"e~">>, <<"e">>, <<"E~">>, <<" ", "e", " ">>, <<"h", "o">>, <<"h", "a">>,
     <<"h", "o", " ", "e~">>}

InitNorm ==
    /\ SessionOff
    /\ \E a \in TypedAnswers, e \in ExpectedForms :
         call = [answer |-> a, expected |-> e, pc |-> "typed"]
    /\ ret = <<>>

\* line 301: is_ok = normalize(user_input) == normalize(correct)
Compare ==
    /\ call.pc = "typed"
    /\ ret' = Some(normalize(call.answer) = normalize(call.expected))
    /\ call' = [call EXCEPT !.pc = "judged"]
    /\ UNCHANGED sessionVars

NextNorm == Compare

SpecNorm == InitNorm /\ [][NextNorm]_vars

\* ------------------------------------------- Verb.imperfect on its own
\* call = a verb, a person index and where the call stands; ret = the form
\* of line 137, v.imperfect()[person_idx]
NoiForms ==
    {<<"f","a","c","c","i","a","m","o">>, <<"d","i","c","i","a","m","o">>,
     <<"d","i","a","m","o">>, <<"f","a","c","e","m","o">>,
     <<"d","i","c","e","m","o">>, <<"f","a","m">>}

ImperfectVerbs ==
    {[Dare EXCEPT !.infinitive = inf, !.noi_present = noi,
                  !.irregular_imperfect = irr] :
       inf \in {"fare", "dire", "dare", "essere"}, noi \in NoiForms,
       irr \in {None, Essere.irregular_imperfect}}

InitImperfect ==
    /\ SessionOff
    /\ \E v \in ImperfectVerbs, p \in 0..5 :
         call = [verb |-> v, person |-> p, pc |-> "called"]
    /\ ret = <<>>

ImperfectReturns ==
    /\ call.pc = "called"
    /\ ret' = Some(imperfect(call.verb)[call.person + 1])
    /\ call' = [call EXCEPT !.pc = "returned"]
    /\ UNCHANGED sessionVars

NextImperfect == ImperfectReturns

SpecImperfect == InitImperfect /\ [][NextImperfect]_vars

\* ------------------------------------- the tracker's keys on their own
\* call = the mapping, the mapping before the last operation and that
\* operation; ret = what get_box returned
KeyCards ==
    {Card(1, "presente", Some(0), None), Card(1, "presente", Some(1), None),
     Card(1, "imperativo", None, Some("tu")), Card(2, "presente", Some(0), None)}

KeyStores == UNION {[K -> 1..5] : K \in SUBSET {key(c) : c \in KeyCards}}

InitKey ==
    /\ SessionOff
    /\ \E b \in KeyStores : call = [boxes |-> b, prev |-> b, op |-> <<>>]
    /\ ret = <<>>

KeyUpdate ==
    /\ \E c \in KeyCards, correct \in BOOLEAN :
         call' = [boxes |-> update(call.boxes, c, correct), prev |-> call.boxes,
                  op |-> <<"update", c, correct>>]
    /\ ret' = <<>>
    /\ UNCHANGED sessionVars

KeyGetBox ==
    /\ \E c \in KeyCards :
         /\ call' = [boxes |-> get_boxStore(call.boxes, c), prev |-> call.boxes,
                     op |-> <<"get_box", c>>]
         /\ ret' = Some(get_box(call.boxes, c))
    /\ UNCHANGED sessionVars

NextKey == KeyUpdate \/ KeyGetBox

SpecKey == InitKey /\ [][NextKey]_vars

\* ================================================================ claims
AllCards == Range(make_cards(verbs, TENSES_ALL))

\* C1: update(card, True) sets the box to min(5, box + 1) and update(card,
\* False) sets it to 1, from every box value; a never-seen card answered
\* correct, correct, wrong, correct has the box trace 1, 2, 3, 1, 2.
C1_UpdateRule ==
    /\ \A i \in 1..Len(call.answers) :
         ret[i + 1] = IF call.answers[i] THEN Min(5, ret[i] + 1) ELSE 1
    /\ (key(call.card) \notin DOMAIN call.boxes
          /\ call.answers = <<TRUE, TRUE, FALSE, TRUE>>)
         => ret = <<1, 2, 3, 1, 2>>

C1_Witness ==
    /\ call.answers = <<TRUE, TRUE, FALSE, TRUE>>
    /\ ret = <<1, 2, 3, 1, 2>>

\* C2: in every reachable state of a session get_box(card) is an integer in
\* 1..5 for every card, and is 1 for every card whose key was never written.
C2_BoxInRange ==
    \A c \in AllCards :
      /\ get_box(ss.progress, c) \in 1..5
      /\ key(c) \notin DOMAIN ss.progress => get_box(ss.progress, c) = 1

Identities(cs) == {Identity(cs[i]) : i \in DOMAIN cs}

NoDuplicates(cs) ==
    \A i, j \in DOMAIN cs : Identity(cs[i]) = Identity(cs[j]) => i = j

\* C3: for every card list, tracker and round size N, and every shuffle,
\* pick_due_cards returns no two cards of the same identity and at most
\* min(N, number of distinct identities of the input) cards.
C3_NoDuplicatesBounded ==
    call.pc = "returned" =>
      /\ NoDuplicates(ret)
      /\ Len(ret) <= Min(call.n, Cardinality(Identities(call.cards)))

C3_Witness ==
    /\ call.pc = "returned"
    /\ Len(call.cards) = 3
    /\ Cardinality(Identities(call.cards)) = 2
    /\ call.n = 3
    /\ Len(ret) = 2

\* a step of an action that calls save_progress
SavingStep ==
    \/ Check
    \/ Skip
    \/ SkipAfterFeedback
    \/ ResetProgress
    \/ Answer /\ "mc_choice" \in DOMAIN ss

\* C4: every action that mutates the tracker saves the whole tracker within
\* the same action: when the save succeeds the file equals the in-memory
\* mapping, and no action changes the tracker without saving.
C4_WriteThrough ==
    [][\/ warned'
       \/ disk' = FileWith(Dump(ss'.progress))
       \/ ~(SavingStep \/ ss'.progress # ss.progress)
       \/ NewSession]_vars

C4_Witness ==
    /\ faults = MaxFaults
    /\ ~warned
    /\ Inited(ss)
    /\ ss.checked
    /\ ss.was_correct
    /\ disk = FileWith(Dump(ss.progress))

\* the tracker an action that saves leaves in memory
UpdateKept ==
    /\ ResetProgress => ss'.progress = EmptyBoxes
    /\ (Skip \/ SkipAfterFeedback) =>
         /\ ss'.progress = update(ss.progress, CurrentCard(ss), FALSE)
         /\ ss'.idx = ss.idx + 1
    /\ (Check \/ (Answer /\ "mc_choice" \in DOMAIN ss)) =>
         /\ ss'.progress = update(ss.progress, CurrentCard(ss), ss'.was_correct)
         /\ ss'.checked

\* C6: when a save fails the action still completes with a warning, the
\* in-memory tracker keeps the update and the file is not written again; the
\* next save that succeeds leaves the file equal to the whole in-memory mapping.
C6_SaveFailure ==
    [][\/ /\ warned' =>
                 /\ ~raised'
                 /\ UpdateKept
                 /\ \/ disk' = disk
                    \/ \E t \in ProperPrefixes(Dump(ss'.progress)) :
                         disk' = FileWith(t)
          /\ ~warned' => disk' = FileWith(Dump(ss'.progress))
       \/ ~SavingStep]_vars

C6_Witness ==
    /\ faults = 0
    /\ ~warned
    /\ Inited(ss)
    /\ Cardinality(DOMAIN ss.progress) = 2
    /\ disk = FileWith(Dump(ss.progress))

CorruptOrMissing(d) == ~d.exists \/ ~WellFormed(d.text)

\* a session that started with no prior progress and sampled its first round
StartedClean(s, r) ==
    /\ ~r
    /\ s.progress = EmptyBoxes
    /\ \A c \in AllCards : get_box(s.progress, c) = 1
    /\ Inited(s)
    /\ Len(s.current_set) = Min(MaxN, Len(cards_all(TENSES_ALL)))
    /\ NoDuplicates(s.current_set)

\* C7: when progress.json is missing or corrupt at session start,
\* load_progress yields an empty mapping, nothing is raised, every card is at
\* box 1 and the first round is sampled.
C7_LoadFallback ==
    /\ CorruptOrMissing(disk) => StartedClean(ss, raised)
    /\ [][(NewSession /\ CorruptOrMissing(disk)) => StartedClean(ss', raised')]_vars

C7_Witness ==
    /\ disk.exists
    /\ CorruptOrMissing(disk)
    /\ Len(disk.text) = 2
    /\ StartedClean(ss, raised)

\* C8: current_set is replaced only at round start (restart_round, or the
\* session's start); every other action leaves it unchanged, and
\* restart_round resets idx and correct_count to 0.
C8_RoundFixed ==
    [][/\ (Inited(ss) /\ Inited(ss') /\ ss'.current_set # ss.current_set)
            => (Restart \/ NewRound \/ NewSession)
       /\ \/ Inited(ss') /\ ss'.idx = 0 /\ ss'.correct_count = 0
          \/ ~(Restart \/ NewRound)]_vars

C8_Witness ==
    /\ Inited(ss)
    /\ ss.was_correct
    /\ ~ss.checked
    /\ ss.idx = 0
    /\ ss.correct_count = 0
    /\ ss.current_set # <<>>

\* C10: once options exist for a round position, every later run at that
\* position shows the same list in the same order; they change only in an
\* action that calls go_next or restart_round (or at a new session).
C10_OptionsFrozen ==
    [][(Inited(ss) /\ Inited(ss') /\ ss.mc_options # None
          /\ ss'.mc_options # ss.mc_options)
         => (Advance \/ Skip \/ SkipAfterFeedback \/ Restart \/ NewRound
               \/ NewSession)]_vars

C10_Witness ==
    /\ mode = MC
    /\ Inited(ss)
    /\ ss.mc_options # None
    /\ Len(ss.mc_options[1]) = 2
    /\ ss.mc_for_idx = Some(1)
    /\ ss.checked
    /\ ss.show_hint
    /\ "mc_choice" \in DOMAIN ss

\* C5: at every point in time, a crash inside save_progress included, the
\* file holds the complete tracker of before the update or the complete
\* tracker of after it.
C5_AtomicSnapshot ==
    \/ disk = FileWith(Dump(call.pre))
    \/ disk = FileWith(Dump(ss.progress))

\* the normalized forms of the card space that differ from the correct one
WrongForms(correct, deck) ==
    {normalize(f) : f \in Range(Pool(deck))} \ {normalize(correct)}

\* C9: the option list contains the correct form, and when the card space
\* has at least 3 forms that differ from it and from each other after
\* normalization, the list has exactly 4 options, no two equal after
\* normalization.
C9_Options ==
    call.pc = "generated" =>
      LET correct == expected_form(call.card)
      IN /\ \E i \in DOMAIN ret : ret[i] = correct
         /\ Cardinality(WrongForms(correct, call.deck)) >= 3 =>
              /\ Len(ret) = 4
              /\ \A i, j \in DOMAIN ret :
                   normalize(ret[i]) = normalize(ret[j]) => i = j

\* the shape make_cards gives a card: a label of tu/noi/voi and no index for
\* the imperative, an index in 0..5 and no label otherwise
WellShaped(c) ==
    IF c.tense = "imperativo"
    THEN /\ c.person_idx = None
         /\ c.person_label \in {Some(l) : l \in Range(IMPERATIVE_PERSONS)}
    ELSE /\ c.person_idx \in {Some(i) : i \in 0..5}
         /\ c.person_label = None

\* C11: every card make_cards produces is well shaped, expected_form resolves
\* every card of the four tenses without raising, and it raises for a card
\* whose tense is none of the four.
C11_CardsResolvable ==
    /\ \A i \in DOMAIN make_cards(verbs, call.tenses) :
         WellShaped(make_cards(verbs, call.tenses)[i])
    /\ call.pc = "returned" => call.card.tense \in Range(TENSES_ALL)
    /\ call.pc = "raised" => call.card.tense \notin Range(TENSES_ALL)

C11_Witness ==
    /\ call.pc = "returned"
    /\ call.tenses = <<"imperfetto", "imperativo">>
    /\ call.card = Card(1, "imperativo", None, Some("voi"))
    /\ ret = Some(<<"s","i","a","t","e">>)

\* what the comparator is said to do to a string: the surrounding spaces go,
\* every letter becomes its small unaccented letter, a combining mark goes
EGroup == {<<"e~">>, <<"e">>, <<"E~">>, <<" ", "e", " ">>}

Blank(s) == \A i \in DOMAIN s : s[i] = " "

PlainLetter(c) ==
    CASE c \in {"e", "E", "e~", "E~"} -> "e"
      [] OTHER -> c

RECURSIVE Trimmed(_)
Trimmed(s) ==
    IF s = <<>> THEN s
    ELSE IF Head(s) = " " THEN Trimmed(Tail(s))
    ELSE IF s[Len(s)] = " " THEN Trimmed(SubSeq(s, 1, Len(s) - 1))
    ELSE s

Folded(s) ==
    LET t == SelectSeq(Trimmed(s), LAMBDA c : c # "~")
    IN [i \in DOMAIN t |-> PlainLetter(t[i])]

\* C12: answers are compared after trimming, lowercasing and removing
\* diacritics: e-grave, e, E-grave and " e " are mutually equal, ho and ha are
\* unequal, and an empty or blank answer is wrong against every expected form.
C12_Comparator ==
    call.pc = "judged" =>
      /\ ret[1] = (Folded(call.answer) = Folded(call.expected))
      /\ (call.answer \in EGroup /\ call.expected \in EGroup) => ret[1]
      /\ (call.answer = <<"h", "o">> /\ call.expected = <<"h", "a">>) => ~ret[1]
      /\ (call.answer = <<"h", "a">> /\ call.expected = <<"h", "o">>) => ~ret[1]
      /\ Blank(call.answer) => ~ret[1]

C12_Witness ==
    /\ call.pc = "judged"
    /\ call.answer = <<" ", "E~", " ">>
    /\ call.expected = <<"e">>
    /\ ret = Some(TRUE)

\* the six present forms of essere and of avere
ToBe == << <<"s","o","n","o">>, <<"s","e","i">>, <<"e~">>,
           <<"s","i","a","m","o">>, <<"s","i","e","t","e">>, <<"s","o","n","o">> >>

ToHave == << <<"h","o">>, <<"h","a","i">>, <<"h","a">>,
             <<"a","b","b","i","a","m","o">>, <<"a","v","e","t","e">>,
             <<"h","a","n","n","o">> >>

\* C13: the expected form of a passato_prossimo card is the person's form of
\* essere (auxiliary "essere") or of avere (any other auxiliary), one space
\* and the past participle; essere / stato / person 0 gives "sono stato".
C13_PassatoProssimo ==
    (call.pc = "returned" /\ call.card.tense = "passato_prossimo") =>
      LET v == VerbOf(call.card)
          p == call.card.person_idx[1] + 1
          aux == IF v.auxiliary = "essere" THEN ToBe ELSE ToHave
      IN /\ ret = Some(aux[p] \o <<" ">> \o v.past_participle)
         /\ (v.infinitive = "essere" /\ p = 1) =>
              ret = Some(<<"s","o","n","o"," ","s","t","a","t","o">>)

C13_Witness ==
    /\ call.pc = "returned"
    /\ call.card = Card(1, "passato_prossimo", Some(0), None)
    /\ ret = Some(<<"s","o","n","o"," ","s","t","a","t","o">>)

ImperfectEndings ==
    << <<"v","o">>, <<"v","i">>, <<"v","a">>, <<"v","a","m","o">>,
       <<"v","a","t","e">>, <<"v","a","n","o">> >>

\* the base the derived forms share
ImperfectBase(v) ==
    LET noi == v.noi_present
        n == Len(noi)
    IN IF v.infinitive = "fare" /\ n >= 3 /\ SubSeq(noi, 1, 3) = <<"f","a","c">>
       THEN <<"f","a","c","e">>
       ELSE IF v.infinitive = "dire" /\ n >= 4
                 /\ SubSeq(noi, 1, 4) = <<"d","i","c","i">>
       THEN <<"d","i","c","e">>
       ELSE IF n >= 4 /\ SubSeq(noi, n - 3, n) = <<"i","a","m","o">>
       THEN SubSeq(noi, 1, n - 4)
       ELSE SubSeq(noi, 1, n - 3)

\* C14: without an override the imperfect is base + ending, the base being
\* the noi form less its last 4 characters (ending in iamo) or 3 (otherwise),
\* "face" for fare with fac..., "dice" for dire with dici...; with an override
\* list the entry at the person index is returned.
C14_Imperfect ==
    call.pc = "returned" =>
      LET v == call.verb
          p == call.person + 1
      IN /\ v.irregular_imperfect = None =>
              ret = Some(ImperfectBase(v) \o ImperfectEndings[p])
         /\ v.irregular_imperfect # None => ret = Some(v.irregular_imperfect[1][p])
         /\ (v.infinitive = "fare" /\ v.irregular_imperfect = None /\ p = 1
               /\ v.noi_present = <<"f","a","c","c","i","a","m","o">>)
              => ret = Some(<<"f","a","c","e","v","o">>)

C14_Witness ==
    /\ call.pc = "returned"
    /\ call.verb.infinitive = "fare"
    /\ call.verb.noi_present = <<"f","a","c","c","i","a","m","o">>
    /\ call.verb.irregular_imperfect = None
    /\ call.person = 0
    /\ ret = Some(<<"f","a","c","e","v","o">>)

\* C15: no card is starved: for every non-empty card list, tracker with boxes
\* in 1..5, round size N >= 1 and card c of the list, some shuffle makes
\* pick_due_cards return a list that contains c.
C15_NoStarvation ==
    (call.pc = "called" /\ ~PickRaises(call.cards, call.boxes)) =>
      \A i \in DOMAIN call.cards :
        \E out \in pick_due_cards(call.cards, call.boxes, call.n) :
          call.cards[i] \in Range(out)

C15_Witness ==
    /\ call.pc = "returned"
    /\ call.n = 1
    /\ Len(call.cards) = 2
    /\ Cardinality(Range(call.cards)) = 2
    /\ \E c \in Range(call.cards) :
         /\ get_box(call.boxes, c) = 5
         /\ \A d \in Range(call.cards) \ {c} : get_box(call.boxes, d) = 1
         /\ ret = <<c>>

\* C16: for a card list with D distinct identities, a tracker with boxes in
\* 1..5 and a round size N, pick_due_cards returns exactly min(N, D) cards,
\* a shorter list without error when D < N.
C16_ExactLength ==
    /\ call.pc = "returned" =>
         Len(ret) = Min(call.n, Cardinality(Identities(call.cards)))
    /\ call.pc = "raised" => \E k \in DOMAIN call.boxes : call.boxes[k] \notin 1..5

C16_Witness ==
    /\ call.pc = "returned"
    /\ Len(call.cards) = 3
    /\ Cardinality(Identities(call.cards)) = 3
    /\ call.n = 2
    /\ Len(ret) = 2
    /\ \A k \in DOMAIN call.boxes : call.boxes[k] = 4

\* C17: each round position causes exactly one tracker update before the
\* cursor advances past it: the verdict of one check, or one reset to 1 by a
\* skip; once the card is judged, no action of the answered state changes
\* the tracker again (resetting all progress and a new session aside).
C17_OneUpdatePerPosition ==
    [][(Inited(ss) /\ Inited(ss') /\ ~ResetProgress /\ ~NewSession) =>
         /\ ss.checked => ss'.progress = ss.progress
         /\ (~ss.checked /\ ss'.idx = ss.idx + 1) =>
              ss'.progress = update(ss.progress, CurrentCard(ss), FALSE)
         /\ (~ss.checked /\ ss'.checked) =>
              ss'.progress = update(ss.progress, CurrentCard(ss), ss'.was_correct)]_vars

\* the cursor of a session state: inside the round while it runs, at its end
\* when it is finished
CursorInRange(s) ==
    Inited(s) =>
      /\ (~s.finished /\ s.current_set # <<>>) =>
           s.idx \in 0..(Len(s.current_set) - 1)
      /\ s.finished => s.idx = Len(s.current_set)

\* C18: while the round is not finished and current_set is not empty,
\* 0 <= idx < len(current_set); idx never decreases within a round; finished
\* becomes true exactly when an advance makes idx reach len(current_set).
C18_CursorSafe ==
    /\ CursorInRange(ss)
    /\ [][/\ CursorInRange(ss')
          /\ (Inited(ss) /\ Inited(ss')) =>
               /\ \/ ss'.idx >= ss.idx
                  \/ Restart \/ NewRound \/ NewSession
               /\ \/ ss.finished \/ ~ss'.finished
                  \/ /\ ss'.idx = ss.idx + 1
                     /\ ss'.idx = Len(ss.current_set)
                     /\ ss'.current_set = ss.current_set]_vars

C18_Witness ==
    /\ Inited(ss)
    /\ ss.finished
    /\ ss.idx = 2
    /\ Len(ss.current_set) = 2
    /\ ss.correct_count = 1

\* the count of a session state against the positions judged so far
CountBounded(s) ==
    Inited(s) =>
      /\ s.correct_count <= s.idx + (IF s.checked THEN 1 ELSE 0)
      /\ ~s.finished => s.correct_count <= s.idx + 1
      /\ s.finished => s.correct_count <= Len(s.current_set)

\* C19: correct_count is at most the number of positions judged in the round
\* (at most idx + 1 while it runs, len(current_set) when finished): it grows
\* by one only in a check accepted while checked is false and judged correct,
\* checked is cleared only by go_next or restart_round, and a skip or a
\* submission without a choice changes neither the count nor the verdict.
C19_CountBounded ==
    /\ CountBounded(ss)
    /\ [][/\ CountBounded(ss')
          /\ (Inited(ss) /\ Inited(ss')) =>
               /\ \/ ss'.correct_count = ss.correct_count
                  \/ /\ ss'.correct_count = ss.correct_count + 1
                     /\ ~ss.checked /\ ss'.checked /\ ss'.was_correct
                  \/ /\ ss'.correct_count = 0
                     /\ Restart \/ NewRound \/ NewSession
               /\ \/ ~ss.checked \/ ss'.checked
                  \/ ss'.idx = ss.idx + 1
                  \/ Restart \/ NewRound \/ NewSession
               /\ \/ ss'.was_correct = ss.was_correct
                  \/ ~ss.checked /\ ss'.checked
                  \/ NewSession
               /\ \/ ss.checked \/ ~ss'.checked
                  \/ ss'.idx = ss.idx /\ "mc_choice" \in DOMAIN ss
                  \/ ss'.idx = ss.idx /\ Check]_vars

C19_Witness ==
    /\ Inited(ss)
    /\ ~ss.finished
    /\ ss.idx = 1
    /\ ss.checked
    /\ ss.correct_count = 2
    /\ mode = MC

\* C20: update(card, correct) changes only the box stored under the card's
\* key: the box of every card of another identity, stored or not, is as it
\* was; get_box leaves the mapping as it was.
C20_UpdateFrame ==
    /\ (call.op # <<>> /\ call.op[1] = "update") =>
         /\ key(call.op[2]) \in DOMAIN call.boxes
         /\ \A c \in KeyCards :
              Identity(c) # Identity(call.op[2]) =>
                /\ key(c) \in DOMAIN call.boxes <=> key(c) \in DOMAIN call.prev
                /\ get_box(call.boxes, c) = get_box(call.prev, c)
         /\ DOMAIN call.boxes \subseteq DOMAIN call.prev \cup {key(call.op[2])}
    /\ (call.op # <<>> /\ call.op[1] = "get_box") =>
         /\ call.boxes = call.prev
         /\ ret = Some(get_box(call.prev, call.op[2]))

C20_Witness ==
    /\ call.op = <<"update", Card(1, "presente", Some(1), None), FALSE>>
    /\ call.prev = [k \in {key(c) : c \in KeyCards} |-> 4]
    /\ call.boxes = [k \in {key(c) : c \in KeyCards} |->
                       IF k = <<"essere", "presente", "tu">> THEN 1 ELSE 4]

====
